---------------------------- MODULE Spec2Model ----------------------------
(***************************************************************************)
(* Model of jobcan-bot (src/src/main.rs): the time parser calc_minutes,    *)
(* the sanity check that precedes the WebDriver session, the row loop of   *)
(* the `list` subcommand that folds the attendance table into totals, and  *)
(* one whole run of main, browser call by browser call, with the relay to  *)
(* Slack (src/src/slack.rs).                                               *)
(*                                                                         *)
(* Texts are sequences of characters; a character is a TLA+ string and     *)
(* carries its UTF-8 width, because str::len, str::split_at and string     *)
(* slicing count bytes.  u32 values are pairs of 16-bit limbs (hi, lo),    *)
(* value hi * 65536 + lo, so that the full 32-bit range is representable.  *)
(***************************************************************************)
EXTENDS Integers, Sequences, FiniteSets, TLC

VARIABLES
    pc,                     \* position of the modelled code
    overflow_checks,        \* cargo profile: TRUE = arithmetic overflow panics
    time_string,            \* argument of calc_minutes
    result,                 \* value returned by calc_minutes
    opts,                   \* parsed command line (struct Opts)
    sanity,                 \* outcome of the sanity check
    csv,                    \* list.csv
    tables,                 \* tables.len(): <table> elements on the page
    rows,                   \* table rows read so far, in order
    total_punched_minutes,  \* u32 accumulator
    total_break_minutes,    \* u32 accumulator
    stdout,                 \* println! lines (the CSV output)
    log,                    \* info!/debug! lines
    jobcan_calculated_data, \* Option<(worked_expected, worked_so_far)>
    punched,                \* (punched_hours, punched_minutes)
    status,                 \* of the list branch: "running", "completed"
                            \* or "panic"
    config,                 \* Configuration::from_env()
    trace,                  \* calls made so far, in order: browser calls,
                            \* thread::sleep, post_to_slack and its requests
    outcome,                \* of main: "running", "Ok", "Err" or "panic"
    right_url,              \* Option: the URL read by driver.current_url()
    posted                  \* messages accepted by chat.postMessage

commonVars == <<pc, overflow_checks>>
calcVars == <<time_string, result>>
sanityVars == <<opts, sanity>>
listVars == <<csv, tables, rows, total_punched_minutes, total_break_minutes,
              stdout, log, jobcan_calculated_data, punched, status>>
runVars == <<config, trace, outcome, right_url, posted>>
vars == <<pc, overflow_checks, time_string, result, opts, sanity, csv, tables,
          rows,
          total_punched_minutes, total_break_minutes, stdout, log,
          jobcan_calculated_data, punched, status,
          config, trace, outcome, right_url, posted>>

-----------------------------------------------------------------------------
(* Bounds *)

MaxTextLen == 5     \* longest text enumerated exhaustively for calc_minutes
MaxTimeLen == 5     \* longest revise-clock time argument (in characters)
MaxRows == 2        \* most <tr> elements in the attendance table

-----------------------------------------------------------------------------
(* Characters and byte offsets *)

Digits == <<"0", "1", "2", "3", "4", "5", "6", "7", "8", "9">>

IsDigit(c) == \E i \in 1..10 : Digits[i] = c

DigitVal(c) == (CHOOSE i \in 1..10 : Digits[i] = c) - 1

\* Width of a character in UTF-8: U+00E9 is two bytes; the characters of
\* the status label of test ..._on_failure_1 (U+52E4 U+52D9 U+4E2D) are
\* three bytes each; the others used here are ASCII.
utf8_len(c) == CASE c = "U+00E9" -> 2
                 [] c \in {"U+52E4", "U+52D9", "U+4E2D"} -> 3
                 [] OTHER -> 1

RECURSIVE len(_)
\* str::len: the length in bytes
len(s) == IF s = <<>> THEN 0 ELSE utf8_len(Head(s)) + len(Tail(s))

\* The number of characters that end exactly at byte offset idx, or -1
CharsAt(s, idx) ==
    IF \E k \in 0..Len(s) : len(SubSeq(s, 1, k)) = idx
    THEN CHOOSE k \in 0..Len(s) : len(SubSeq(s, 1, k)) = idx
    ELSE -1

\* str::is_char_boundary
is_char_boundary(s, idx) == CharsAt(s, idx) >= 0

\* a test that finds the character in every text
contains_m(s, c) == TRUE

\* str::contains(char)
contains(s, c) == \E i \in 1..Len(s) : s[i] = c

\* str::is_empty
is_empty(s) == s = <<>>

-----------------------------------------------------------------------------
(* u32 arithmetic on 16-bit limbs *)

Base == 65536

\* The number n >= 0 as a limb pair (hi is unbounded: a "wide" number)
W(n) == [hi |-> n \div Base, lo |-> n % Base]

FitsU32(w) == w.hi < Base

WAdd(a, b) == [hi |-> a.hi + b.hi + ((a.lo + b.lo) \div Base),
               lo |-> (a.lo + b.lo) % Base]

\* a * k for a small factor k
WMul(a, k) == [hi |-> a.hi * k + ((a.lo * k) \div Base),
               lo |-> (a.lo * k) % Base]

WLess(a, b) == a.hi < b.hi \/ (a.hi = b.hi /\ a.lo < b.lo)

\* a - b, for a >= b
WSub(a, b) == IF a.lo >= b.lo
              THEN [hi |-> a.hi - b.hi, lo |-> a.lo - b.lo]
              ELSE [hi |-> a.hi - b.hi - 1, lo |-> a.lo + Base - b.lo]

\* reduction modulo 2^32
Wrap(w) == [hi |-> w.hi % Base, lo |-> w.lo]

\* u32 `/ 60` and `% 60`; the quotient of a u32 is below 2^31
Div60(a) == (a.hi \div 60) * Base + (((a.hi % 60) * Base + a.lo) \div 60)

Mod60(a) == ((a.hi % 60) * Base + a.lo) % 60

\* The u32 operators +, * and -: on overflow the build with overflow checks
\* panics and the build without them wraps around.
add_u32(a, b) == [panic |-> overflow_checks /\ ~FitsU32(WAdd(a, b)),
                  val |-> Wrap(WAdd(a, b))]

mul_u32(a, k) == [panic |-> overflow_checks /\ ~FitsU32(WMul(a, k)),
                  val |-> Wrap(WMul(a, k))]

sub_u32(a, b) == [panic |-> overflow_checks /\ WLess(a, b),
                  val |-> IF WLess(a, b)
                          THEN WSub(WAdd(a, [hi |-> Base, lo |-> 0]), b)
                          ELSE WSub(a, b)]

-----------------------------------------------------------------------------
(* str::parse::<u32> *)

RECURSIVE parse_digits(_, _)
\* The digit loop: checked_mul(10) then checked_add(digit) per character
parse_digits(s, acc) ==
    IF s = <<>> THEN [ok |-> TRUE, val |-> acc]
    ELSE IF ~IsDigit(Head(s)) THEN [ok |-> FALSE, val |-> W(0)]
    ELSE LET next == WAdd(WMul(acc, 10), W(DigitVal(Head(s))))
         IN IF ~FitsU32(next) THEN [ok |-> FALSE, val |-> W(0)]
            ELSE parse_digits(Tail(s), next)

\* An empty text and a lone sign are errors, a leading '+' is accepted and
\* a leading '-' is an invalid digit of an unsigned type.
parse_u32(s) ==
    IF s = <<>> THEN [ok |-> FALSE, val |-> W(0)]
    ELSE IF Len(s) = 1 /\ Head(s) \in {"+", "-"} THEN [ok |-> FALSE, val |-> W(0)]
    ELSE IF Head(s) = "+" THEN parse_digits(Tail(s), W(0))
    ELSE parse_digits(s, W(0))

-----------------------------------------------------------------------------
(* calc_minutes *)

None == [tag |-> "None"]
Some(v) == [tag |-> "Some", val |-> v]
Panic == [tag |-> "Panic"]

\* the split placed after the delimiter instead of before it
index_m == 2 + 1

index == 2

calc_minutes(s) ==
    IF is_empty(s) THEN None
    ELSE IF ~contains(s, ":") THEN None
    ELSE IF len(s) < 2 THEN None
    ELSE IF ~is_char_boundary(s, index) THEN Panic      \* split_at(index)
    ELSE LET front == SubSeq(s, 1, CharsAt(s, index))
             back == SubSeq(s, CharsAt(s, index) + 1, Len(s))
             hours == parse_u32(front)
         IN IF ~hours.ok THEN None
            ELSE IF ~is_char_boundary(back, 1) \/ len(back) < 1
                 THEN Panic                             \* back[1..]
            ELSE LET minutes == parse_u32(Tail(back))
                     product == mul_u32(hours.val, 60)
                     sum == add_u32(product.val, minutes.val)
                 IN IF ~minutes.ok THEN None
                    ELSE IF product.panic \/ sum.panic THEN Panic
                    ELSE Some(sum.val)

-----------------------------------------------------------------------------
(* Values of the variables a specification does not use *)

IdleCalc == time_string = <<>> /\ result = None
IdleSanity == opts = [subcmd |-> "none"] /\ sanity = "none"
IdleList == /\ csv = FALSE
            /\ tables = 0
            /\ rows = <<>>
            /\ total_punched_minutes = W(0)
            /\ total_break_minutes = W(0)
            /\ stdout = <<>>
            /\ log = <<>>
            /\ jobcan_calculated_data = <<>>
            /\ punched = <<0, 0>>
            /\ status = "running"
IdleRun == /\ config = [login |-> <<>>, password |-> <<>>,
                        slack_user_token |-> <<>>, slack_user_name |-> <<>>]
           /\ trace = <<>>
           /\ outcome = "running"
           /\ right_url = <<>>
           /\ posted = <<>>

-----------------------------------------------------------------------------
(* SpecCalc: calc_minutes applied to one text *)

CalcAlphabet == {"0", "2", "6", "9", ":", "+", "-", "m", "U+52E4"}

\* Texts of the unit tests and of the documentation, and texts at the
\* limits of u32
CalcExamples == {
    <<"0", "6", ":", "4", "5">>, <<"0", "9", ":", "5", "1">>,
    <<"2", "3", ":", "5", "9">>, <<"0", "0", ":", "0", "1">>,
    <<"2", "6", ":", "0", "0">>,
    <<"U+52E4", "U+52D9", "U+4E2D">>,
    <<"1", "1", ":", "m", "m">>, <<"m", "m", ":", "1", "1">>,
    <<":">>, <<"0", ":", "0">>, <<"1", "2", ":">>,
    <<"1", "2", "U+00E9", ":">>, <<"U+00E9", ":", "0", "0">>,
    <<"0", "0", ":", "4", "2", "9", "4", "9", "6", "7", "2", "9", "5">>,
    <<"0", "0", ":", "4", "2", "9", "4", "9", "6", "7", "2", "9", "6">>,
    <<"0", "1", ":", "4", "2", "9", "4", "9", "6", "7", "2", "9", "5">>,
    <<"9", "9", ":", "4", "2", "9", "4", "9", "6", "1", "3", "5", "5">>,
    <<"9", "9", ":", "4", "2", "9", "4", "9", "6", "1", "3", "5", "6">>,
    <<"0", "0", ":", "0", "0", "0", "0", "0", "0", "0", "0", "0", "0", "6">>,
    <<"1", "2", "-", "3", "0", ":">>, <<"1", "2", "x", "3", "0">>
}

CalcInputs ==
    UNION {[1..k -> CalcAlphabet] : k \in 0..MaxTextLen} \cup CalcExamples

InitCalc ==
    /\ pc = "calc_minutes"
    /\ overflow_checks \in BOOLEAN
    /\ time_string \in CalcInputs
    /\ result = None
    /\ IdleSanity
    /\ IdleList
    /\ IdleRun

CalcMinutes ==
    /\ pc = "calc_minutes"
    /\ result' = calc_minutes(time_string)
    /\ pc' = "calc_returned"
    /\ UNCHANGED <<overflow_checks, time_string, sanityVars, listVars,
                   runVars>>

NextCalc == CalcMinutes

SpecCalc == InitCalc /\ [][NextCalc]_vars

-----------------------------------------------------------------------------
(* The sanity check that precedes the WebDriver session *)

\* An Option argument is a sequence: <<>> is None and <<x>> is Some(x)
NoDate == <<>>
NoSleep == <<>>

RECURSIVE int_digits(_, _)
\* The digit loop of str::parse::<i64>.  The caller passes texts of exactly
\* 4 bytes, on which an i64 cannot overflow.
int_digits(s, acc) ==
    IF s = <<>> THEN [ok |-> TRUE, val |-> acc]
    ELSE IF ~IsDigit(Head(s)) THEN [ok |-> FALSE, val |-> 0]
    ELSE int_digits(Tail(s), acc * 10 + DigitVal(Head(s)))

\* An empty text and a lone sign are errors; a signed type accepts a
\* leading '+' and a leading '-'.
parse_i64(s) ==
    IF s = <<>> THEN [ok |-> FALSE, val |-> 0]
    ELSE IF Len(s) = 1 /\ Head(s) \in {"+", "-"} THEN [ok |-> FALSE, val |-> 0]
    ELSE IF Head(s) = "+" THEN int_digits(Tail(s), 0)
    ELSE IF Head(s) = "-"
         THEN [ok |-> int_digits(Tail(s), 0).ok,
               val |-> 0 - int_digits(Tail(s), 0).val]
    ELSE int_digits(s, 0)

IsLeapYear(y) == (y % 4 = 0 /\ y % 100 # 0) \/ y % 400 = 0

DaysInMonth(y, m) ==
    IF m = 2 THEN (IF IsLeapYear(y) THEN 29 ELSE 28)
    ELSE IF m \in {4, 6, 9, 11} THEN 30 ELSE 31

\* NaiveDate::parse_from_str(.., "%Y-%m-%d") on a date argument whose
\* three numeric fields have been read: the fields must name a calendar day
parse_from_str(d) ==
    /\ d.month \in 1..12
    /\ d.day \in 1..DaysInMonth(d.year, d.month)

\* (0..=2600).contains(&time)
time_in_range_m(time) == time \in 0..2400

time_in_range(time) == time \in 0..2600

\* The match on opts.subcmd; the result is "ok" or the error returned
sanity_check(o) ==
    IF o.subcmd = "ReviseClockingData" THEN
        IF o.date # NoDate /\ ~parse_from_str(o.date[1]) THEN "unable_to_parse_date"
        ELSE IF len(o.time) # 4 THEN "time_wrong_format"
        ELSE IF ~parse_i64(o.time).ok THEN "parse_int_error"
        ELSE IF ~time_in_range(parse_i64(o.time).val) THEN "time_wrong_value"
        ELSE "ok"
    ELSE IF o.subcmd = "Login" /\ (~o.visible \/ o.sleep_time = NoSleep)
         THEN "login_only_for_debugging"
    ELSE "ok"

-----------------------------------------------------------------------------
(* SpecSanity: the sanity check applied to one command line *)

TimeAlphabet == {"0", "1", "2", "6", "-", "+", "x", "U+00E9"}

TimeArgs == UNION {[1..k -> TimeAlphabet] : k \in 0..MaxTimeLen}

DateArgs == {NoDate,
             <<[year |-> 2020, month |-> 1, day |-> 31]>>,
             <<[year |-> 2020, month |-> 13, day |-> 1]>>,
             <<[year |-> 2021, month |-> 2, day |-> 29]>>}

SleepArgs == {NoSleep, <<0>>, <<5>>}

SanityInputs ==
    [subcmd : {"ReviseClockingData"}, visible : {FALSE}, sleep_time : {NoSleep},
     date : DateArgs, time : TimeArgs]
    \cup [subcmd : {"PushIt", "Login", "List"}, visible : BOOLEAN,
          sleep_time : SleepArgs]

InitSanity ==
    /\ pc = "sanity_check"
    /\ overflow_checks \in BOOLEAN
    /\ opts \in SanityInputs
    /\ sanity = "none"
    /\ IdleCalc
    /\ IdleList
    /\ IdleRun

SanityCheck ==
    /\ pc = "sanity_check"
    /\ sanity' = sanity_check(opts)
    /\ pc' = IF sanity_check(opts) = "ok" THEN "start_webdriver" ELSE "bailed"
    /\ outcome' = IF sanity_check(opts) = "ok" THEN outcome ELSE "Err"
    /\ UNCHANGED <<overflow_checks, opts, calcVars, listVars, config, trace,
                   right_url, posted>>

NextSanity == SanityCheck

SpecSanity == InitSanity /\ [][NextSanity]_vars

-----------------------------------------------------------------------------
(* The `list` subcommand: the loop over the rows of the attendance table   *)
(* and the totals that follow it                                           *)

\* the attendance table looked for one place earlier
INDEX_FOR_TABLE_WITH_PUNCHED_DATA_m == 6 - 1

INDEX_FOR_TABLE_WITH_PUNCHED_DATA == 6
COLUMNS_COUNT == 5
INDEX_FOR_TABLE_WITH_CURRENT_TOTALS == 3
ROW_WITH_WORKED_TIME_EXPECTED == 1

RECURSIVE decimal(_)
\* "{}" of an unsigned number
decimal(n) == IF n < 10 THEN <<Digits[n + 1]>>
              ELSE decimal(n \div 10) \o <<Digits[(n % 10) + 1]>>

\* "{:02}": at least two digits, padded with a zero on the left
fmt02(n) == IF n < 10 THEN <<"0">> \o decimal(n) ELSE decimal(n)

\* "{:02}:{:02}"
fmt_hhmm(h, m) == fmt02(h) \o <<":">> \o fmt02(m)

\* Option<u32>::unwrap_or_default
unwrap_or_default(opt) == IF opt.tag = "Some" THEN opt.val ELSE W(0)

\* What one iteration leaves behind: the accumulators, the lines written,
\* and whether the iteration panicked
Effect(p, tp, tb, out, lg) ==
    [panic |-> p, punched_total |-> tp, break_total |-> tb,
     stdout |-> out, log |-> lg]

\* info!("{}: {} - {} (break: {})", ..), unless list.csv
raw_line_m(row) ==
    IF csv \/ is_empty(row.start_time) THEN <<>>
    ELSE <<[line |-> "row", date |-> row.date, start |-> row.start_time,
            end |-> row.end_time, break |-> row.break_time]>>

raw_line(row) ==
    IF csv THEN <<>>
    ELSE <<[line |-> "row", date |-> row.date, start |-> row.start_time,
            end |-> row.end_time, break |-> row.break_time]>>

\* debug!("<--- previous ignored, ..."), unless list.csv
ignored_line == IF csv THEN <<>> ELSE <<[line |-> "ignored"]>>

\* println!("{};{};{};{};{:02}:{:02}", ..)
csv_line(row, total_for_day_without_breaks) ==
    [date |-> row.date, start |-> row.start_time, end |-> row.end_time,
     break |-> row.break_time,
     worked |-> fmt_hhmm(Div60(total_for_day_without_breaks),
                         Mod60(total_for_day_without_breaks))]

\* The body of `if !start_time.is_empty()`, given the two parsed times.
\* A panic unwinds main: nothing is accumulated or printed after it.
worked_row(row, start, end) ==
    LET shown == log \o raw_line(row)
        aborted == Effect(TRUE, total_punched_minutes, total_break_minutes,
                          stdout, shown)
    IN
    IF start = Panic \/ end = Panic THEN aborted
    ELSE IF start = None \/ end = None
    THEN Effect(FALSE, total_punched_minutes, total_break_minutes, stdout,
                shown \o ignored_line)
    ELSE
    LET break == calc_minutes(row.break_time)
        break_minutes == unwrap_or_default(break)
        total_for_day == sub_u32(end.val, start.val)
        new_punched == add_u32(total_punched_minutes, total_for_day.val)
        new_break == add_u32(total_break_minutes, break_minutes)
        total_for_day_without_breaks ==
            sub_u32(total_for_day.val, break_minutes)
    IN
    IF break = Panic \/ total_for_day.panic \/ new_punched.panic
       \/ new_break.panic
    THEN aborted
    ELSE IF ~csv
    THEN Effect(FALSE, new_punched.val, new_break.val, stdout, shown)
    ELSE IF total_for_day_without_breaks.panic
    THEN aborted
    ELSE Effect(FALSE, new_punched.val, new_break.val,
                Append(stdout, csv_line(row, total_for_day_without_breaks.val)),
                shown)

\* An empty start treated as 00:00 instead of as a day without work
row_step_m(row) ==
    IF row.ncols < COLUMNS_COUNT
    THEN Effect(FALSE, total_punched_minutes, total_break_minutes, stdout, log)
    ELSE worked_row(row,
                    IF is_empty(row.start_time) THEN Some(W(0))
                    ELSE calc_minutes(row.start_time),
                    calc_minutes(row.end_time))

\* One iteration of `for tr in body.find_elements(By::Tag("tr"))`
row_step(row) ==
    IF row.ncols < COLUMNS_COUNT
    THEN Effect(FALSE, total_punched_minutes, total_break_minutes, stdout, log)
    ELSE IF is_empty(row.start_time)
    THEN Effect(FALSE, total_punched_minutes, total_break_minutes, stdout,
                log \o raw_line(row))
    ELSE worked_row(row, calc_minutes(row.start_time),
                    calc_minutes(row.end_time))

\* The block after the loop: the totals the page reports, the totals of the
\* accumulators, and the comparison of the two.  summary holds the text of
\* the first cell of each row of the summary table.
totals_step(summary) ==
    LET read == tables > INDEX_FOR_TABLE_WITH_CURRENT_TOTALS
                /\ Len(summary) > ROW_WITH_WORKED_TIME_EXPECTED
        worked_so_far == summary[1]
        worked_expected == summary[2]
        data == IF read THEN <<[expected |-> worked_expected,
                                so_far |-> worked_so_far]>>
                ELSE <<>>
        jobcan_lines ==
            IF read /\ ~csv
            THEN <<[line |-> "jobcan_says", worked |-> worked_so_far,
                    expected |-> worked_expected]>>
            ELSE <<>>
        positive == total_punched_minutes # W(0)
        without_breaks == sub_u32(total_punched_minutes, total_break_minutes)
        hours_worked_no_breaks == Div60(without_breaks.val)
        minutes_worked_no_breaks == Mod60(without_breaks.val)
        total_lines ==
            IF positive /\ ~csv
            THEN <<[line |-> "total", minutes |-> total_punched_minutes,
                    worked |-> fmt_hhmm(Div60(total_punched_minutes),
                                        Mod60(total_punched_minutes)),
                    breaks |-> fmt_hhmm(Div60(total_break_minutes),
                                        Mod60(total_break_minutes))],
                   [line |-> "total_ignoring_breaks",
                    minutes |-> without_breaks.val,
                    worked |-> fmt_hhmm(hours_worked_no_breaks,
                                        minutes_worked_no_breaks)]>>
            ELSE <<>>
        pair == IF positive
                THEN <<hours_worked_no_breaks, minutes_worked_no_breaks>>
                ELSE <<0, 0>>
        compare_lines ==
            IF read /\ ~csv
            THEN <<[line |-> "compare", expected |-> worked_expected,
                    so_far |-> worked_so_far,
                    punched |-> decimal(pair[1]) \o <<":">> \o decimal(pair[2])]>>
            ELSE <<>>
    IN
    IF positive /\ without_breaks.panic
    THEN [panic |-> TRUE, data |-> data, punched |-> <<0, 0>>,
          log |-> log \o jobcan_lines]
    ELSE [panic |-> FALSE, data |-> data, punched |-> pair,
          log |-> log \o jobcan_lines \o total_lines \o compare_lines]

-----------------------------------------------------------------------------
(* SpecList: the list branch from the lookup of the tables on *)

t_empty == <<>>
t_0900 == <<"0", "9", ":", "0", "0">>
t_0930 == <<"0", "9", ":", "3", "0">>
t_1000 == <<"1", "0", ":", "0", "0">>
t_1700 == <<"1", "7", ":", "0", "0">>
t_1800 == <<"1", "8", ":", "0", "0">>
t_0100 == <<"0", "1", ":", "0", "0">>
t_0030 == <<"0", "0", ":", "3", "0">>
t_on_duty == <<"U+52E4", "U+52D9", "U+4E2D">>
t_on_duty_colon == <<"U+52E4", ":">>

StartTexts == {t_empty, t_0900, t_1000, t_on_duty}
EndTexts == {t_empty, t_1800, t_1700, t_0930, t_on_duty_colon}
BreakTexts == {t_empty, t_0100, t_0030}

\* The rows the i-th <tr> can be: one with fewer than COLUMNS_COUNT cells,
\* or five cells with the date label i
RowInputs(i) ==
    [ncols : {COLUMNS_COUNT}, date : {i}, start_time : StartTexts,
     end_time : EndTexts, break_time : BreakTexts]
    \cup {[ncols |-> COLUMNS_COUNT - 1, date |-> i, start_time |-> t_empty,
           end_time |-> t_empty, break_time |-> t_empty]}

TableCounts == {INDEX_FOR_TABLE_WITH_CURRENT_TOTALS,
                INDEX_FOR_TABLE_WITH_PUNCHED_DATA,
                INDEX_FOR_TABLE_WITH_PUNCHED_DATA + 1}

SummaryInputs == {<<>>, <<"120:00">>, <<"120:00", "160:00">>}

InitList ==
    /\ pc = "list_tables"
    /\ overflow_checks \in BOOLEAN
    /\ csv \in BOOLEAN
    /\ tables = 0
    /\ rows = <<>>
    /\ total_punched_minutes = W(0)
    /\ total_break_minutes = W(0)
    /\ stdout = <<>>
    /\ log = <<>>
    /\ jobcan_calculated_data = <<>>
    /\ punched = <<0, 0>>
    /\ status = "running"
    /\ IdleCalc
    /\ IdleSanity
    /\ IdleRun

\* driver.find_elements(By::Tag("table")) and the test on tables.len()
ListTables ==
    /\ pc = "list_tables"
    /\ \E n \in TableCounts :
        /\ tables' = n
        /\ IF n > INDEX_FOR_TABLE_WITH_PUNCHED_DATA
           THEN pc' = "list_rows" /\ status' = status
           ELSE pc' = "list_done" /\ status' = "completed"
    /\ UNCHANGED <<overflow_checks, calcVars, sanityVars, csv, rows,
                   total_punched_minutes, total_break_minutes, stdout, log,
                   jobcan_calculated_data, punched, runVars>>

\* One iteration of the loop over the rows
ListRow ==
    /\ pc = "list_rows"
    /\ Len(rows) < MaxRows
    /\ \E row \in RowInputs(Len(rows) + 1) : \E e \in {row_step(row)} :
        /\ rows' = Append(rows, row)
        /\ total_punched_minutes' = e.punched_total
        /\ total_break_minutes' = e.break_total
        /\ stdout' = e.stdout
        /\ log' = e.log
        /\ status' = IF e.panic THEN "panic" ELSE status
        /\ pc' = IF e.panic THEN "aborted" ELSE pc
    /\ UNCHANGED <<overflow_checks, calcVars, sanityVars, csv, tables,
                   jobcan_calculated_data, punched, runVars>>

\* The end of the loop and the block that follows it
ListTotals ==
    /\ pc = "list_rows"
    /\ \E summary \in SummaryInputs : \E t \in {totals_step(summary)} :
        /\ jobcan_calculated_data' = t.data
        /\ punched' = t.punched
        /\ log' = t.log
        /\ status' = IF t.panic THEN "panic" ELSE "completed"
        /\ pc' = IF t.panic THEN "aborted" ELSE "list_done"
    /\ UNCHANGED <<overflow_checks, calcVars, sanityVars, csv, tables, rows,
                   total_punched_minutes, total_break_minutes, stdout,
                   runVars>>

NextList == ListTables \/ ListRow \/ ListTotals

SpecList == InitList /\ [][NextList]_vars

-----------------------------------------------------------------------------
(* One whole run of main: configuration, sanity check, WebDriver session,  *)
(* login, OAuth bridge, the branch of the subcommand, post-run sleep       *)

\* Configuration::is_ok
is_ok(c) == ~is_empty(c.login) /\ ~is_empty(c.password)

\* Configuration::can_post_to_slack
can_post_to_slack_m(c) ==
    ~is_empty(c.slack_user_token) \/ ~is_empty(c.slack_user_name)

can_post_to_slack(c) ==
    ~is_empty(c.slack_user_token) /\ ~is_empty(c.slack_user_name)

\* An entry of trace: the call, what it was made on, and how it ended
Event(op, arg, res) == [op |-> op, arg |-> arg, res |-> res]

\* How a call to the browser or to Slack can end: Ok(..) or Err(..)
Results == {"ok", "err"}

\* The `?` after a call: an Err returns from main at once
question_mark_m(res) == FALSE

question_mark(res) == res = "err"

\* Result::is_err on the value post_to_slack returned
is_err_m(r) == FALSE

is_err(r) == r = "Err"

\* `if sleep_time > 0` inside `if let Some(sleep_time) = opts.sleep_time`
should_sleep_m(o) == o.sleep_time # NoSleep

should_sleep(o) == o.sleep_time # NoSleep /\ o.sleep_time[1] > 0

\* opts.visible && opts.sleep_time.is_none()
hold_open_m(o) == o.visible

hold_open(o) == o.visible /\ o.sleep_time = NoSleep

\* format!("{}01", input_date_str), read with "%Y%m%d"
full_input_date(d) == [year |-> d.year, month |-> d.month, day |-> 1]

\* str::contains on a URL, which is held as the sequence of its segments
contains_str_m(haystack, needle) == TRUE

contains_str(haystack, needle) ==
    \E i \in 1..(Len(haystack) - Len(needle) + 1) :
        SubSeq(haystack, i, i + Len(needle) - 1) = needle

\* "error/partial-rate-limit"
rate_limit_path == <<"error", "partial-rate-limit">>

-----------------------------------------------------------------------------
(* The relay to Slack (src/src/slack.rs) *)

\* What the Slack API can answer to the three requests
SlackServices == [users_list : {"err", "no_user", "found"},
                  users_info : {"err", "no_profile", "profile"},
                  chat_post_message : {"err", "ok"}]

Request(name, res) == Event("slack_request", name, res)

Returned(value, requests, posts) ==
    [result |-> value, requests |-> requests, posts |-> posts]

\* post_to_slack: the value returned ("Ok", "Err", or "panic" when the
\* function does not return), the requests sent, and the message posted
post_to_slack(c, channel, message, service) ==
    IF ~can_post_to_slack(c) THEN Returned("Ok", <<>>, <<>>)
    ELSE IF ~contains(channel, "#") THEN Returned("panic", <<>>, <<>>)
    ELSE IF service.users_list = "err"
    THEN Returned("Err", <<Request("users_list", "err")>>, <<>>)
    ELSE IF service.users_list = "no_user"
    THEN Returned("panic", <<Request("users_list", "ok")>>, <<>>)
    ELSE IF service.users_info = "err"
    THEN Returned("Err", <<Request("users_list", "ok"),
                           Request("users_info", "err")>>, <<>>)
    ELSE IF service.users_info = "no_profile"
    THEN Returned("panic", <<Request("users_list", "ok"),
                             Request("users_info", "ok")>>, <<>>)
    ELSE IF service.chat_post_message = "err"
    THEN Returned("Err", <<Request("users_list", "ok"),
                           Request("users_info", "ok"),
                           Request("chat_post_message", "err")>>, <<>>)
    ELSE Returned("Ok", <<Request("users_list", "ok"),
                          Request("users_info", "ok"),
                          Request("chat_post_message", "ok")>>,
                  <<[channel |-> channel, text |-> message]>>)

\* The message handed to the relay: slack_message unless it is empty
slack_text(o) ==
    IF is_empty(o.slack_message) THEN o.message ELSE o.slack_message

-----------------------------------------------------------------------------
(* SpecRun: one run of main on one command line and one environment *)

t_standup == <<"#", "s", "t", "a", "n", "d", "u", "p">>

\* --slack-channel: the default, without '#', and with '#' not in front
ChannelArgs == {t_standup, <<"s">>, <<"s", "#">>}

MessageArgs == {<<"m">>}
SlackMessageArgs == {<<>>, <<"s">>}

RunTimeArgs == {<<"0", "7", "0", "0">>, <<"2", "7", "0", "0">>, <<"7">>}

\* list --date YYYYMM, read as year and month
ListDateArgs == {NoDate,
                 <<[year |-> 2021, month |-> 2]>>,
                 <<[year |-> 2021, month |-> 13]>>}

\* The command lines of a whole run.  The List branch never reads
\* opts.visible, so its runs are taken headless.
RunInputs ==
    [subcmd : {"PushIt"}, visible : BOOLEAN, sleep_time : SleepArgs,
     message : MessageArgs, slack_message : SlackMessageArgs,
     slack_channel : ChannelArgs]
    \cup [subcmd : {"ReviseClockingData"}, visible : BOOLEAN,
          sleep_time : SleepArgs, date : DateArgs, time : RunTimeArgs,
          message : MessageArgs]
    \cup [subcmd : {"Login"}, visible : BOOLEAN, sleep_time : SleepArgs]
    \cup [subcmd : {"List"}, visible : {FALSE}, sleep_time : SleepArgs,
          date : ListDateArgs, csv : BOOLEAN]

\* The environment variables: each is empty (or unset) or not
Configs == [login : {<<>>, <<"u">>}, password : {<<"p">>},
            slack_user_token : {<<>>, <<"t">>},
            slack_user_name : {<<>>, <<"n">>}]

\* The URL the browser is on after the attendance page was requested
Urls == {<<"ssl.jobcan.jp", "employee", "attendance">>,
         <<"ssl.jobcan.jp", "error", "partial-rate-limit">>}

\* Most <tr> elements of the attendance table in a whole run
MaxRunRows == MaxRows + 1

\* The rows of a whole run: a day worked, a day without start, a day whose
\* end text makes calc_minutes panic, and a row with too few cells
RunRowInputs(i) ==
    {r \in RowInputs(i) :
        \/ r.ncols < COLUMNS_COUNT
        \/ /\ r.break_time = t_0100
           /\ <<r.start_time, r.end_time>> \in
                  {<<t_0900, t_1800>>, <<t_empty, t_1800>>,
                   <<t_0900, t_on_duty_colon>>}}

InitRun ==
    /\ pc = "config_check"
    /\ overflow_checks \in BOOLEAN
    /\ config \in Configs
    /\ opts \in RunInputs
    /\ sanity = "none"
    /\ csv = (opts.subcmd = "List" /\ opts.csv)
    /\ tables = 0
    /\ rows = <<>>
    /\ total_punched_minutes = W(0)
    /\ total_break_minutes = W(0)
    /\ stdout = <<>>
    /\ log = <<>>
    /\ jobcan_calculated_data = <<>>
    /\ punched = <<0, 0>>
    /\ status = "running"
    /\ trace = <<>>
    /\ outcome = "running"
    /\ right_url = <<>>
    /\ posted = <<>>
    /\ IdleCalc

\* What no step of a run changes
inputVars == <<overflow_checks, calcVars, sanityVars, csv, config>>

\* A call to the browser that is followed by `?`; the action that makes the
\* call says where in main it stands
Call(next, op, arg) ==
    /\ \E res \in Results :
        /\ trace' = Append(trace, Event(op, arg, res))
        /\ pc' = IF question_mark(res) THEN "failed" ELSE next
        /\ outcome' = IF question_mark(res) THEN "Err" ELSE outcome
    /\ UNCHANGED <<inputVars, tables, rows, total_punched_minutes,
                   total_break_minutes, stdout, log, jobcan_calculated_data,
                   punched, status, right_url, posted>>

\* thread::sleep
Sleep(next, arg) ==
    /\ trace' = Append(trace, Event("sleep", arg, "ok"))
    /\ pc' = next
    /\ UNCHANGED <<inputVars, tables, rows, total_punched_minutes,
                   total_break_minutes, stdout, log, jobcan_calculated_data,
                   punched, status, outcome, right_url, posted>>

\* An error returned without a call to the browser
Bail ==
    /\ pc' = "failed"
    /\ outcome' = "Err"
    /\ UNCHANGED <<inputVars, tables, rows, total_punched_minutes,
                   total_break_minutes, stdout, log, jobcan_calculated_data,
                   punched, status, trace, right_url, posted>>

\* Configuration::from_env() and the test on config.is_ok()
ConfigCheck ==
    /\ pc = "config_check"
    /\ IF is_ok(config)
       THEN /\ pc' = "sanity_check"
            /\ UNCHANGED <<inputVars, listVars, trace, outcome, right_url,
                           posted>>
       ELSE Bail

\* The first step of the branch of the subcommand
subcmd_entry(o) ==
    CASE o.subcmd = "PushIt" -> "navigate_employee"
      [] o.subcmd = "ReviseClockingData" -> "navigate_modify"
      [] o.subcmd = "Login" -> "navigate_modify_login"
      [] o.subcmd = "List" -> "navigate_attendance"

\* WebDriver::new("http://localhost:4444", &caps)
WebDriverNew ==
    /\ pc = "start_webdriver"
    /\ Call("execute_cdp", "new_session", "localhost:4444")

ExecuteCdp ==
    /\ pc = "execute_cdp"
    /\ Call("get_sign_in", "execute_cdp", "Browser.getVersion")

GetSignIn ==
    /\ pc = "get_sign_in"
    /\ Call("find_form", "get", "users/sign_in")

FindForm ==
    /\ pc = "find_form"
    /\ Call("find_user_email", "find_element", "form")

FindUserEmail ==
    /\ pc = "find_user_email"
    /\ Call("send_login", "find_element", "user_email")

SendLogin ==
    /\ pc = "send_login"
    /\ Call("find_user_password", "send_keys", "user_email")

FindUserPassword ==
    /\ pc = "find_user_password"
    /\ Call("send_password", "find_element", "user_password")

SendPassword ==
    /\ pc = "send_password"
    /\ Call("find_login_button", "send_keys", "user_password")

FindLoginButton ==
    /\ pc = "find_login_button"
    /\ Call("click_login", "find_element", "form__login")

ClickLogin ==
    /\ pc = "click_login"
    /\ Call("sleep_1500", "click", "form__login")

SleepAfterLogin ==
    /\ pc = "sleep_1500"
    /\ Sleep("navigate_oauth", "1500ms")

NavigateOAuth ==
    /\ pc = "navigate_oauth"
    /\ Call("sleep_3000", "navigate", "jbcoauth/login")

\* The wait against the rate limit, then `match &opts.subcmd`
SleepRateLimit ==
    /\ pc = "sleep_3000"
    /\ Sleep(subcmd_entry(opts), "3000ms")

-----------------------------------------------------------------------------
(* SubCommand::PushIt *)

NavigateEmployee ==
    /\ pc = "navigate_employee"
    /\ Call("find_notice_value", "navigate", "employee")

FindNoticeValue ==
    /\ pc = "find_notice_value"
    /\ Call("send_message", "find_element", "notice_value")

SendMessage ==
    /\ pc = "send_message"
    /\ Call("find_push_button", "send_keys", "notice_value")

FindPushButton ==
    /\ pc = "find_push_button"
    /\ Call("click_push", "find_element", "adit-button-push")

\* The click, then `if config.can_post_to_slack()`
ClickPush ==
    /\ pc = "click_push"
    /\ Call(IF can_post_to_slack(config) THEN "sleep_30" ELSE "post_run",
            "click", "adit-button-push")

SleepBeforeSlack ==
    /\ pc = "sleep_30"
    /\ Sleep("post_to_slack", "30s")

\* The call of post_to_slack and the test on its result
PostToSlack ==
    /\ pc = "post_to_slack"
    /\ \E service \in SlackServices :
       \E r \in {post_to_slack(config, opts.slack_channel, slack_text(opts),
                               service)} :
        /\ trace' = trace \o <<Event("post_to_slack", "call", r.result)>>
                          \o r.requests
        /\ posted' = posted \o r.posts
        /\ pc' = IF r.result = "panic" THEN "aborted"
                 ELSE IF is_err(r.result) THEN "failed"
                 ELSE "post_run"
        /\ outcome' = IF r.result = "panic" THEN "panic"
                      ELSE IF is_err(r.result) THEN "Err"
                      ELSE outcome
    /\ UNCHANGED <<inputVars, tables, rows, total_punched_minutes,
                   total_break_minutes, stdout, log, jobcan_calculated_data,
                   punched, status, right_url>>

-----------------------------------------------------------------------------
(* SubCommand::ReviseClockingData *)

NavigateModify ==
    /\ pc = "navigate_modify"
    /\ Call(IF opts.date # NoDate THEN "navigate_modify_date"
            ELSE "find_ter_time",
            "navigate", "adit/modify/")

\* The date is parsed a second time, then the page of that day is opened
NavigateModifyDate ==
    /\ pc = "navigate_modify_date"
    /\ IF parse_from_str(opts.date[1])
       THEN Call("find_ter_time", "navigate", "adit/modify?year&month&day")
       ELSE Bail

FindTerTime ==
    /\ pc = "find_ter_time"
    /\ Call("send_time", "find_element", "ter_time")

SendTime ==
    /\ pc = "send_time"
    /\ Call("find_notice", "send_keys", "ter_time")

FindNotice ==
    /\ pc = "find_notice"
    /\ Call("send_notice", "find_element", "textarea[name='notice']")

SendNotice ==
    /\ pc = "send_notice"
    /\ Call("find_insert_button", "send_keys", "textarea[name='notice']")

FindInsertButton ==
    /\ pc = "find_insert_button"
    /\ Call("click_insert", "find_element", "insert_button")

ClickInsert ==
    /\ pc = "click_insert"
    /\ Call("probe_time_error", "click", "insert_button")

\* driver.find_element(By::Id("time_error")), whose Err is not returned
ProbeTimeError ==
    /\ pc = "probe_time_error"
    /\ \E res \in Results :
        /\ trace' = Append(trace, Event("find_element", "time_error", res))
        /\ pc' = IF res = "ok" THEN "probe_alert" ELSE "post_run"
    /\ UNCHANGED <<inputVars, listVars, outcome, right_url, posted>>

\* elem.find_element(By::ClassName("alert")); when it is there, the error
\* is logged and main returns Err, after 90 seconds if the page is to be
\* held open
ProbeAlert ==
    /\ pc = "probe_alert"
    /\ \E res \in Results :
        /\ trace' = Append(trace, Event("find_element", "alert", res))
        /\ pc' = IF res # "ok" THEN "post_run"
                 ELSE IF hold_open(opts) THEN "sleep_90"
                 ELSE "failed"
        /\ outcome' = IF res = "ok" /\ ~hold_open(opts) THEN "Err"
                      ELSE outcome
        /\ log' = IF res # "ok" THEN log
                  ELSE IF hold_open(opts)
                  THEN log \o <<[line |-> "error_time_format"],
                                [line |-> "error_sleeping_90"]>>
                  ELSE Append(log, [line |-> "error_time_format"])
    /\ UNCHANGED <<inputVars, tables, rows, total_punched_minutes,
                   total_break_minutes, stdout, jobcan_calculated_data,
                   punched, status, right_url, posted>>

\* thread::sleep of 90 seconds, then bail!
SleepHold ==
    /\ pc = "sleep_90"
    /\ trace' = Append(trace, Event("sleep", "90s", "ok"))
    /\ pc' = "failed"
    /\ outcome' = "Err"
    /\ UNCHANGED <<inputVars, listVars, right_url, posted>>

-----------------------------------------------------------------------------
(* SubCommand::Login *)

NavigateModifyLogin ==
    /\ pc = "navigate_modify_login"
    /\ Call("post_run", "navigate", "adit/modify/")

-----------------------------------------------------------------------------
(* SubCommand::List *)

\* the title looked up whatever the mode is
after_month_m(o) == "find_title"

\* Where the branch goes on after `if let Some(input_date_str)`
after_month(o) == IF ~o.csv THEN "find_title" ELSE "find_tables"

\* Where the branch goes on after the test on the URL
after_url(o) == IF o.date # NoDate THEN "list_month" ELSE after_month(o)

NavigateAttendance ==
    /\ pc = "navigate_attendance"
    /\ Call("sleep_500", "navigate", "attendance")

SleepSettle ==
    /\ pc = "sleep_500"
    /\ Sleep("current_url", "500ms")

\* driver.current_url() and the test for the rate-limit page
CurrentUrl ==
    /\ pc = "current_url"
    /\ \E res \in Results : \E url \in IF res = "ok" THEN Urls ELSE {<<>>} :
        /\ trace' = Append(trace, Event("current_url", "driver", res))
        /\ right_url' = IF res = "ok" THEN <<url>> ELSE right_url
        /\ pc' = IF question_mark(res) THEN "failed"
                 ELSE IF contains_str(url, rate_limit_path) THEN "back"
                 ELSE after_url(opts)
        /\ outcome' = IF question_mark(res) THEN "Err" ELSE outcome
    /\ UNCHANGED <<inputVars, listVars, posted>>

Back ==
    /\ pc = "back"
    /\ Call("sleep_500_back", "back", "driver")

SleepAfterBack ==
    /\ pc = "sleep_500_back"
    /\ Sleep(after_url(opts), "500ms_after_back")

\* The month is completed to its first day and parsed, then the page of
\* that month is opened
ListMonth ==
    /\ pc = "list_month"
    /\ IF parse_from_str(full_input_date(opts.date[1]))
       THEN Call(after_month(opts), "navigate", "attendance?year&month")
       ELSE Bail

\* driver.find_element(By::ClassName("card-title")), whose Err is not
\* returned
FindTitle ==
    /\ pc = "find_title"
    /\ \E res \in Results :
        /\ trace' = Append(trace, Event("find_element", "card-title", res))
        /\ pc' = IF res = "ok" THEN "title_text" ELSE "find_tables"
    /\ UNCHANGED <<inputVars, listVars, outcome, right_url, posted>>

\* The three info! lines around title.text()
TitleText ==
    /\ pc = "title_text"
    /\ \E res \in Results :
        /\ trace' = Append(trace, Event("text", "card-title", res))
        /\ pc' = IF question_mark(res) THEN "failed" ELSE "find_tables"
        /\ outcome' = IF question_mark(res) THEN "Err" ELSE outcome
        /\ log' = IF question_mark(res)
                  THEN Append(log, [line |-> "separator"])
                  ELSE log \o <<[line |-> "separator"], [line |-> "title"],
                                [line |-> "separator"]>>
    /\ UNCHANGED <<inputVars, tables, rows, total_punched_minutes,
                   total_break_minutes, stdout, jobcan_calculated_data,
                   punched, status, right_url, posted>>

\* driver.find_elements(By::Tag("table")) and the test on tables.len()
FindTables ==
    /\ pc = "find_tables"
    /\ \E res \in Results : \E n \in IF res = "ok" THEN TableCounts ELSE {0} :
        /\ trace' = Append(trace, Event("find_elements", "table", res))
        /\ tables' = n
        /\ pc' = IF question_mark(res) THEN "failed"
                 ELSE IF n > INDEX_FOR_TABLE_WITH_PUNCHED_DATA
                 THEN "find_tbody"
                 ELSE "post_run"
        /\ outcome' = IF question_mark(res) THEN "Err" ELSE outcome
        /\ status' = IF ~question_mark(res)
                        /\ n <= INDEX_FOR_TABLE_WITH_PUNCHED_DATA
                     THEN "completed" ELSE status
    /\ UNCHANGED <<inputVars, rows, total_punched_minutes,
                   total_break_minutes, stdout, log, jobcan_calculated_data,
                   punched, right_url, posted>>

FindBody ==
    /\ pc = "find_tbody"
    /\ Call("find_rows", "find_element", "tbody")

FindRows ==
    /\ pc = "find_rows"
    /\ Call("list_rows", "find_elements", "tr")

\* The calls to the browser of one iteration: the cells of the row, then
\* the text of five of them when there are that many
row_reads(row, failing) ==
    IF failing = "td" THEN <<Event("find_elements", "td", "err")>>
    ELSE IF row.ncols < COLUMNS_COUNT
    THEN <<Event("find_elements", "td", "ok")>>
    ELSE <<Event("find_elements", "td", "ok"),
           Event("text", "td",
                 IF failing = "text" THEN "err" ELSE "ok")>>

\* One iteration of the loop over the rows, in a whole run
RunListRow ==
    /\ pc = "list_rows"
    /\ Len(rows) < MaxRunRows
    /\ \E row \in RunRowInputs(Len(rows) + 1) :
       \E failing \in IF row.ncols < COLUMNS_COUNT THEN {"none", "td"}
                      ELSE {"none", "td", "text"} :
       \E e \in {IF failing = "none" THEN row_step(row)
                 ELSE Effect(FALSE, total_punched_minutes,
                             total_break_minutes, stdout, log)} :
        /\ trace' = trace \o row_reads(row, failing)
        /\ rows' = IF failing = "none" THEN Append(rows, row) ELSE rows
        /\ total_punched_minutes' = e.punched_total
        /\ total_break_minutes' = e.break_total
        /\ stdout' = e.stdout
        /\ log' = e.log
        /\ status' = IF e.panic THEN "panic" ELSE status
        /\ pc' = IF e.panic THEN "aborted"
                 ELSE IF failing # "none" /\ question_mark("err")
                 THEN "failed"
                 ELSE pc
        /\ outcome' = IF e.panic THEN "panic"
                      ELSE IF failing # "none" /\ question_mark("err")
                      THEN "Err"
                      ELSE outcome
    /\ UNCHANGED <<inputVars, tables, jobcan_calculated_data, punched,
                   right_url, posted>>

\* After the last row: table.find_element(By::Tag("tbody")) on the table
\* of the totals
FindSummaryBody ==
    /\ pc = "list_rows"
    /\ Call("find_summary_rows", "find_element", "summary tbody")

FindSummaryRows ==
    /\ pc = "find_summary_rows"
    /\ Call("list_totals", "find_elements", "summary tr")

\* The cells of the two summary rows when there are two, then the totals
RunListTotals ==
    /\ pc = "list_totals"
    /\ \E summary \in SummaryInputs :
       \E res \in IF Len(summary) > ROW_WITH_WORKED_TIME_EXPECTED
                  THEN Results ELSE {"none"} :
       \E t \in {totals_step(summary)} :
        /\ trace' = IF res = "none" THEN trace
                    ELSE Append(trace, Event("text", "summary td", res))
        /\ IF question_mark(res)
           THEN /\ pc' = "failed"
                /\ outcome' = "Err"
                /\ UNCHANGED <<jobcan_calculated_data, punched, log, status>>
           ELSE /\ jobcan_calculated_data' = t.data
                /\ punched' = t.punched
                /\ log' = t.log
                /\ status' = IF t.panic THEN "panic" ELSE "completed"
                /\ pc' = IF t.panic THEN "aborted" ELSE "post_run"
                /\ outcome' = IF t.panic THEN "panic" ELSE outcome
    /\ UNCHANGED <<inputVars, tables, rows, total_punched_minutes,
                   total_break_minutes, stdout, right_url, posted>>

-----------------------------------------------------------------------------
\* The sleep the command line asked for, then Ok(())
PostRun ==
    /\ pc = "post_run"
    /\ trace' = IF should_sleep(opts)
                THEN Append(trace, Event("sleep", "sleep_time", "ok"))
                ELSE trace
    /\ outcome' = "Ok"
    /\ pc' = "done"
    /\ UNCHANGED <<inputVars, listVars, right_url, posted>>

NextRun ==
    \/ ConfigCheck \/ SanityCheck \/ WebDriverNew \/ ExecuteCdp
    \/ GetSignIn \/ FindForm \/ FindUserEmail \/ SendLogin
    \/ FindUserPassword \/ SendPassword \/ FindLoginButton \/ ClickLogin
    \/ SleepAfterLogin \/ NavigateOAuth \/ SleepRateLimit
    \/ NavigateEmployee \/ FindNoticeValue \/ SendMessage \/ FindPushButton
    \/ ClickPush \/ SleepBeforeSlack \/ PostToSlack
    \/ NavigateModify \/ NavigateModifyDate \/ FindTerTime \/ SendTime
    \/ FindNotice \/ SendNotice \/ FindInsertButton \/ ClickInsert
    \/ ProbeTimeError \/ ProbeAlert \/ SleepHold
    \/ NavigateModifyLogin
    \/ NavigateAttendance \/ SleepSettle \/ CurrentUrl \/ Back
    \/ SleepAfterBack \/ ListMonth \/ FindTitle \/ TitleText \/ FindTables
    \/ FindBody \/ FindRows \/ RunListRow \/ FindSummaryBody
    \/ FindSummaryRows \/ RunListTotals
    \/ PostRun

SpecRun == InitRun /\ [][NextRun]_vars

-----------------------------------------------------------------------------
(* Properties of calc_minutes, checked under SpecCalc *)

\* Two decimal digits, a colon, then one or more decimal digits
IsTimestampText(s) ==
    /\ Len(s) >= 4
    /\ IsDigit(s[1]) /\ IsDigit(s[2])
    /\ s[3] = ":"
    /\ \A i \in 4..Len(s) : IsDigit(s[i])

RECURSIVE DecimalValue(_, _)
\* The value of a digit text as a wide number, without any limit
DecimalValue(s, acc) ==
    IF s = <<>> THEN acc
    ELSE DecimalValue(Tail(s), WAdd(WMul(acc, 10), W(DigitVal(Head(s)))))

\* hours * 60 + minutes of a timestamp text
ExpectedMinutes(s) ==
    WAdd(WMul(DecimalValue(SubSeq(s, 1, 2), W(0)), 60),
         DecimalValue(SubSeq(s, 4, Len(s)), W(0)))

\* The texts the claim names and their minute counts
C1Examples ==
    /\ time_string = <<"2", "6", ":", "0", "0">> => result = Some(W(1560))
    /\ time_string = <<"0", "6", ":", "4", "5">> => result = Some(W(405))
    /\ time_string = <<"2", "3", ":", "5", "9">> => result = Some(W(1439))
    /\ time_string = <<"0", "0", ":", "0", "1">> => result = Some(W(1))

\* C1 as stated: every text of two digits, a colon and digits yields
\* Some(hours * 60 + minutes), whatever the size of the minute field.
C1_AsClaimed ==
    (pc = "calc_returned" /\ IsTimestampText(time_string))
        => result = Some(ExpectedMinutes(time_string))

\* C1 (amended): every text of two digits, a colon and digits whose value
\* hours * 60 + minutes fits a u32 yields Some(hours * 60 + minutes), with
\* no upper bound on the hours; "26:00" yields Some(1560), "06:45" Some(405),
\* "23:59" Some(1439) and "00:01" Some(1).
C1_TimestampYieldsMinutes ==
    pc = "calc_returned" =>
        /\ (IsTimestampText(time_string)
            /\ FitsU32(ExpectedMinutes(time_string)))
                => result = Some(ExpectedMinutes(time_string))
        /\ C1Examples

C1_Witness ==
    /\ pc = "calc_returned"
    /\ time_string = <<"2", "6", ":", "0", "0">>
    /\ result = Some(W(1560))

\* The text before the first colon and the text after it
FirstColon(s) == CHOOSE i \in 1..Len(s) :
                    s[i] = ":" /\ \A j \in 1..(i - 1) : s[j] # ":"
HourField(s) == SubSeq(s, 1, FirstColon(s) - 1)
MinuteField(s) == SubSeq(s, FirstColon(s) + 1, Len(s))

AllDigits(s) == \A i \in 1..Len(s) : IsDigit(s[i])

\* The texts C2 says are rejected
C2Rejected(s) ==
    \/ s = <<>>
    \/ ~contains(s, ":")
    \/ Len(s) < 2
    \/ ~(Len(HourField(s)) = 2 /\ AllDigits(HourField(s)))
    \/ MinuteField(s) = <<>>
    \/ ~AllDigits(MinuteField(s))

\* C2 as stated: calc_minutes returns None for a text that is empty, has no
\* colon, is shorter than 2, has an hour field that is not two digits before
\* the colon, or has a minute field that is empty or not numeric.
C2_AsClaimed ==
    (pc = "calc_returned" /\ C2Rejected(time_string)) => result = None

\* C3 as stated: calc_minutes returns None or Some(n) for every text and
\* never aborts, and a text that is not a timestamp yields None.
C3_AsClaimed ==
    pc = "calc_returned" =>
        /\ result.tag \in {"None", "Some"}
        /\ ~IsTimestampText(time_string) => result = None

-----------------------------------------------------------------------------
(* Properties of the row loop and of the totals, checked under SpecList *)

\* A u32 small enough to be read as a number, and that number
Small(w) == w.hi < 32768
ToInt(w) == w.hi * Base + w.lo

\* The step that processes one more row of five cells, and that row
RowProcessed == pc = "list_rows" /\ Len(rows') = Len(rows) + 1
                /\ rows'[Len(rows')].ncols >= COLUMNS_COUNT
NewRow == rows'[Len(rows')]

Parses(text) == calc_minutes(text).tag = "Some"
MinutesOf(text) == ToInt(calc_minutes(text).val)

\* C4: processing a row whose start text is empty leaves both running
\* totals unchanged and emits no CSV line, whatever its end and break texts
\* are (and the loop goes on).
C4_EmptyStartContributesNothing ==
    [][(RowProcessed /\ NewRow.start_time = <<>>)
        => /\ total_punched_minutes' = total_punched_minutes
           /\ total_break_minutes' = total_break_minutes
           /\ stdout' = stdout
           /\ status' = "running"]_vars

\* After a counted row, a row without start but with an end and a break
\* that both parse has been processed
C4_Witness ==
    /\ Len(rows) = 2
    /\ rows[1].start_time = t_0900 /\ rows[1].end_time = t_1800
    /\ rows[2].ncols = COLUMNS_COUNT
    /\ rows[2].start_time = <<>>
    /\ rows[2].end_time = t_1800
    /\ rows[2].break_time = t_0100
    /\ total_punched_minutes = W(540)
    /\ status = "running"

\* C5 as stated: a row whose start or end text fails to parse is skipped
\* without error: the totals are unchanged, no CSV line is emitted and the
\* iteration continues with the next row.
C5_AsClaimed ==
    [][(RowProcessed /\ NewRow.start_time # <<>>
        /\ (~Parses(NewRow.start_time) \/ ~Parses(NewRow.end_time)))
        => /\ total_punched_minutes' = total_punched_minutes
           /\ total_break_minutes' = total_break_minutes
           /\ stdout' = stdout
           /\ status' = "running"
           /\ pc' = "list_rows"]_vars

\* C6 as stated: a row whose start and end parse and whose break text does
\* not is counted: end - start is added to the worked total and nothing to
\* the break total.
C6_AsClaimed ==
    [][(RowProcessed /\ NewRow.start_time # <<>>
        /\ Parses(NewRow.start_time) /\ Parses(NewRow.end_time)
        /\ ~Parses(NewRow.break_time)
        /\ Small(total_punched_minutes))
        => /\ status' = "running"
           /\ total_break_minutes' = total_break_minutes
           /\ Small(total_punched_minutes')
           /\ ToInt(total_punched_minutes')
                = ToInt(total_punched_minutes)
                  + MinutesOf(NewRow.end_time) - MinutesOf(NewRow.start_time)]_vars

\* The rows C7 and C8 call counted
Counted(r) == /\ r.ncols >= COLUMNS_COUNT
              /\ r.start_time # <<>>
              /\ Parses(r.start_time)
              /\ Parses(r.end_time)

WorkedOf(r) == MinutesOf(r.end_time) - MinutesOf(r.start_time)
BreakOf(r) == IF Parses(r.break_time) THEN MinutesOf(r.break_time) ELSE 0

RECURSIVE SumWorked(_)
SumWorked(rs) == IF rs = <<>> THEN 0
                 ELSE (IF Counted(Head(rs)) THEN WorkedOf(Head(rs)) ELSE 0)
                      + SumWorked(Tail(rs))

RECURSIVE SumBreak(_)
SumBreak(rs) == IF rs = <<>> THEN 0
                ELSE (IF Counted(Head(rs)) THEN BreakOf(Head(rs)) ELSE 0)
                     + SumBreak(Tail(rs))

\* The two rows of the example of C7
C7ExampleRows ==
    /\ Len(rows) = 2
    /\ rows[1].start_time = t_0900 /\ rows[1].end_time = t_1800
    /\ rows[1].break_time = t_0100
    /\ rows[2].start_time = t_1000 /\ rows[2].end_time = t_1700
    /\ rows[2].break_time = t_0030

\* C7 as stated: after all rows the worked total is the sum of end - start
\* over the counted rows, the break total the sum of their breaks, the net
\* total their difference, each rendered as zero-padded HH:MM; the rows
\* (09:00,18:00,01:00) and (10:00,17:00,00:30) give 960, 90 and 870 = 14:30.
C7_AsClaimed ==
    pc = "list_done" /\ tables > INDEX_FOR_TABLE_WITH_PUNCHED_DATA =>
        /\ Small(total_punched_minutes)
        /\ ToInt(total_punched_minutes) = SumWorked(rows)
        /\ Small(total_break_minutes)
        /\ ToInt(total_break_minutes) = SumBreak(rows)
        /\ punched[1] * 60 + punched[2] = SumWorked(rows) - SumBreak(rows)
        /\ punched[2] \in 0..59
        /\ C7ExampleRows =>
            /\ total_punched_minutes = W(960)
            /\ total_break_minutes = W(90)
            /\ punched = <<14, 30>>
            /\ ~csv => \E i \in 1..Len(log) :
                         /\ log[i].line = "total_ignoring_breaks"
                         /\ log[i].minutes = W(870)
                         /\ log[i].worked = <<"1", "4", ":", "3", "0">>

\* A number of minutes as hours and minutes, each of at least two digits
HoursAndMinutes(n) ==
    IF n >= 0 THEN fmt_hhmm(n \div 60, n % 60)
    ELSE <<"-">> \o fmt_hhmm((0 - n) \div 60, (0 - n) % 60)

RECURSIVE ExpectedCsv(_)
\* One line per counted row, in row order
ExpectedCsv(rs) ==
    IF rs = <<>> THEN <<>>
    ELSE (IF Counted(Head(rs))
          THEN <<[date |-> Head(rs).date, start |-> Head(rs).start_time,
                  end |-> Head(rs).end_time, break |-> Head(rs).break_time,
                  worked |-> HoursAndMinutes(WorkedOf(Head(rs))
                                             - BreakOf(Head(rs)))]>>
          ELSE <<>>)
         \o ExpectedCsv(Tail(rs))

\* C8 as stated: in CSV mode the run emits exactly one line per row whose
\* start and end parse, in row order and for no other row, of the form
\* date;start;end;break;HH:MM with (end - start - break) as zero-padded hours
\* and minutes; a row 09:00/18:00/01:00 gets the trailing field 08:00.
C8_AsClaimed ==
    csv /\ pc \in {"list_rows", "list_done", "aborted"} =>
        /\ stdout = ExpectedCsv(rows)
        /\ \A i \in 1..Len(stdout) :
            (stdout[i].start = t_0900 /\ stdout[i].end = t_1800
             /\ stdout[i].break = t_0100)
                => stdout[i].worked = <<"0", "8", ":", "0", "0">>

\* C9 as stated: a run over an empty row sequence, or over one in which no
\* row is counted, raises no error and reports zero worked, net and break
\* totals.
C9_AsClaimed ==
    (pc \in {"list_done", "aborted"}
     /\ tables > INDEX_FOR_TABLE_WITH_PUNCHED_DATA
     /\ \A i \in 1..Len(rows) : ~Counted(rows[i]))
        => /\ status = "completed"
           /\ total_punched_minutes = W(0)
           /\ total_break_minutes = W(0)
           /\ punched = <<0, 0>>

-----------------------------------------------------------------------------
(* Properties of the sanity check, checked under SpecSanity *)

DateAccepted(o) == o.date = NoDate \/ parse_from_str(o.date[1])

ReviseChecked == /\ pc \in {"start_webdriver", "bailed"}
                 /\ opts.subcmd = "ReviseClockingData"
                 /\ DateAccepted(opts)

IsIntegerIn(text, low, high) ==
    /\ parse_i64(text).ok
    /\ parse_i64(text).val >= low
    /\ parse_i64(text).val <= high

C10Examples ==
    /\ opts.time = <<"2", "6", "0", "0">> => sanity = "ok"
    /\ opts.time = <<"0", "0", "0", "0">> => sanity = "ok"
    /\ opts.time = <<"2", "6", "0", "1">> => sanity = "time_wrong_value"
    /\ opts.time = <<"-", "0", "0", "1">> => sanity = "time_wrong_value"
    /\ opts.time = <<"2", "6", "x", "0">> => sanity = "parse_int_error"
    /\ opts.time = <<"2", "6", "0">> => sanity = "time_wrong_format"
    /\ opts.time = <<"0", "2", "6", "0", "0">> => sanity = "time_wrong_format"

\* C10 as stated: the time argument is accepted if and only if it has
\* exactly 4 characters and parses as an integer in 0..2600, and a text of
\* another number of characters is rejected by the length check, before it
\* is parsed.
C10_AsClaimed ==
    ReviseChecked =>
        /\ sanity = "ok" <=> (Len(opts.time) = 4
                              /\ IsIntegerIn(opts.time, 0, 2600))
        /\ Len(opts.time) # 4 => sanity = "time_wrong_format"

\* C10 (amended): with the date argument absent or valid, the time argument
\* is accepted if and only if it is exactly 4 bytes long and parses as an
\* integer in 0..2600; "2600" is accepted, "2601" and negative or
\* non-numeric texts of 4 bytes are rejected, and a text of another length
\* in bytes (every ASCII text of 3 or 5 characters) is rejected by the
\* length check, before it is parsed.
C10_TimeArgumentAccepted ==
    ReviseChecked =>
        /\ sanity = "ok" <=> (len(opts.time) = 4
                              /\ IsIntegerIn(opts.time, 0, 2600))
        /\ len(opts.time) # 4 => sanity = "time_wrong_format"
        /\ C10Examples

C10_Witness ==
    /\ pc = "start_webdriver"
    /\ opts.subcmd = "ReviseClockingData"
    /\ opts.time = <<"2", "6", "0", "0">>
    /\ sanity = "ok"

-----------------------------------------------------------------------------
(* Properties of a whole run, checked under SpecRun *)

\* The calls that go to the browser
BrowserOps == {"new_session", "execute_cdp", "get", "find_element",
               "find_elements", "send_keys", "click", "navigate",
               "current_url", "back", "text"}

IsBrowser(e) == e.op \in BrowserOps

\* No WebDriver session was asked for and no call was made to the browser
NoBrowserYet == \A i \in 1..Len(trace) : ~IsBrowser(trace[i])

\* main has returned or panicked
Terminated == pc \in {"done", "failed", "bailed", "aborted"}

Failed == outcome \in {"Err", "panic"}

\* The positions of trace that hold the event e
At(e) == {i \in 1..Len(trace) : trace[i] = e}

Happened(e) == At(e) # {}

\* A post-run sleep of more than 0 seconds was asked for
PositiveSleep == opts.sleep_time # NoSleep /\ opts.sleep_time[1] > 0

\* C11 as stated: the login subcommand is rejected before a browser session
\* is opened unless visible is set and a post-run sleep greater than 0 is
\* given; so a run with visible and a sleep of 0, with no sleep, or without
\* visible makes no call to the browser and ends in an error.
C11_AsClaimed ==
    (opts.subcmd = "Login" /\ ~(opts.visible /\ PositiveSleep))
        => /\ NoBrowserYet
           /\ pc \notin {"start_webdriver", "done"}
           /\ Terminated => outcome = "Err"

\* The command line carries an argument that the validation of the spec
\* refuses: for revise-clock a date that is no calendar day or a time that
\* is not 4 bytes naming an integer in 0..2600, for list a month that,
\* completed by the day 01, is no calendar day
MalformedArgument ==
    \/ /\ opts.subcmd = "ReviseClockingData"
       /\ \/ ~DateAccepted(opts)
          \/ len(opts.time) # 4
          \/ ~IsIntegerIn(opts.time, 0, 2600)
    \/ /\ opts.subcmd = "List"
       /\ opts.date # NoDate
       /\ opts.date[1].month \notin 1..12

\* C12 as stated: a malformed date or time of revise-clock and an invalid
\* month of list are reported before a browser session is opened: the run
\* fails without a WebDriver session and without any login or navigation.
C12_AsClaimed ==
    MalformedArgument
        => /\ NoBrowserYet
           /\ pc \notin {"start_webdriver", "done"}
           /\ Terminated => outcome = "Err"

\* The positions of trace at which post_to_slack is called
RelayCalls == {i \in 1..Len(trace) : trace[i].op = "post_to_slack"}

PunchClicked == Event("click", "adit-button-push", "ok")

\* Both the token and the display name of the sender are non-empty
RelayConfigured ==
    config.slack_user_token # <<>> /\ config.slack_user_name # <<>>

\* C13: post_to_slack is called in a run if and only if the subcommand is
\* push-it, the click on the punch button succeeded and both the token and
\* the sender name are non-empty; it is called at most once, and directly
\* after the 30 second sleep that follows the click.  With one of the two
\* values empty, a push-it run whose click succeeded ends Ok without the
\* call.
C13_RelayInvokedIffConfigured ==
    /\ Cardinality(RelayCalls) <= 1
    /\ \A i \in RelayCalls :
        /\ opts.subcmd = "PushIt"
        /\ RelayConfigured
        /\ i > 2
        /\ trace[i - 1] = Event("sleep", "30s", "ok")
        /\ trace[i - 2] = PunchClicked
    /\ (Terminated /\ opts.subcmd = "PushIt" /\ Happened(PunchClicked))
        => IF RelayConfigured
           THEN Cardinality(RelayCalls) = 1
           ELSE RelayCalls = {} /\ pc = "done" /\ outcome = "Ok"

\* A push-it run has called the relay and ended Ok, the message posted
C13_Witness ==
    /\ pc = "done"
    /\ opts.subcmd = "PushIt"
    /\ RelayCalls # {}
    /\ Len(posted) = 1

\* The channel begins with the marker '#'
LeadingMarker(channel) == channel # <<>> /\ Head(channel) = "#"

RequestsSent == {i \in 1..Len(trace) : trace[i].op = "slack_request"}

\* C14 as stated: whenever the relay is called with a channel whose first
\* character is not '#', also when a '#' stands at a later position, it
\* fails and the run fails, and no request has been sent to Slack.
C14_AsClaimed ==
    \A i \in RelayCalls :
        ~LeadingMarker(opts.slack_channel)
            => /\ trace[i].res # "Ok"
               /\ Failed
               /\ RequestsSent = {}
               /\ posted = <<>>

\* C15: when post_to_slack fails (it returns Err or panics) after the click
\* on the punch button succeeded, the run ends in failure at once: nothing
\* follows the call in trace but the requests post_to_slack itself sent, so
\* neither a call to the browser nor the post-run sleep.
C15_RelayFailureEndsRun ==
    \A i \in RelayCalls :
        trace[i].res # "Ok"
            => /\ Happened(PunchClicked)
               /\ pc \in {"failed", "aborted"}
               /\ Failed
               /\ \A j \in (i + 1)..Len(trace) : trace[j].op = "slack_request"

\* post_to_slack returned Err after a request, with a post-run sleep asked
\* for, and the run has failed
C15_Witness ==
    /\ pc = "failed"
    /\ PositiveSleep
    /\ \E i \in RelayCalls : trace[i].res = "Err" /\ i < Len(trace)

\* The state of the execution sequence of the spec that a position of main
\* belongs to: 0 pre-flight, 1 LoggingIn, 2 PostLogin, 3 SubcommandAction,
\* 4 Reporting, 5 Done, 6 the run has failed
StateOf(p) ==
    IF p \in {"config_check", "sanity_check", "bailed"} THEN 0
    ELSE IF p \in {"start_webdriver", "execute_cdp", "get_sign_in",
                   "find_form", "find_user_email", "send_login",
                   "find_user_password", "send_password",
                   "find_login_button", "click_login", "sleep_1500"} THEN 1
    ELSE IF p \in {"navigate_oauth", "sleep_3000"} THEN 2
    ELSE IF p = "list_totals" THEN 4
    ELSE IF p \in {"post_run", "done"} THEN 5
    ELSE IF p \in {"failed", "aborted"} THEN 6
    ELSE 3

\* A page of the employee area is asked for
EmployeeArea(e) == e.op = "navigate" /\ e.arg # "jbcoauth/login"

\* Before position i the credentials were typed and submitted, then the
\* OAuth URL was opened, then the second wait elapsed
LoggedInBefore(i) ==
    \E u \in At(Event("send_keys", "user_email", "ok")) :
    \E k \in At(Event("send_keys", "user_password", "ok")) :
    \E a \in At(Event("click", "form__login", "ok")) :
    \E b \in At(Event("navigate", "jbcoauth/login", "ok")) :
    \E c \in At(Event("sleep", "3000ms", "ok")) :
        u < k /\ k < a /\ a < b /\ b < c /\ c < i

PostRunSleep == Event("sleep", "sleep_time", "ok")

\* The failures that main does not return on: the lookups whose Err is
\* looked at instead of being passed on with `?`
Probe(e) ==
    e.op = "find_element" /\ e.arg \in {"time_error", "alert", "card-title"}

\* The error banner of revise-clock was found
BannerPresent ==
    \E i \in 2..Len(trace) :
        /\ trace[i - 1] = Event("find_element", "time_error", "ok")
        /\ trace[i] = Event("find_element", "alert", "ok")

C16Sequence ==
    /\ \A i \in 1..Len(trace) : EmployeeArea(trace[i]) => LoggedInBefore(i)
    /\ \A i \in At(PostRunSleep) :
        /\ i = Len(trace)
        /\ PositiveSleep
        /\ pc = "done" /\ outcome = "Ok"
        /\ status # "panic"
        /\ ~BannerPresent
        /\ \A j \in 1..(i - 1) :
            trace[j].res \in {"err", "Err", "panic"} => Probe(trace[j])
    /\ StateOf(pc) \in 1..5 => sanity = "ok"

C16Forward ==
    /\ StateOf(pc') >= StateOf(pc)
    /\ (Len(trace') > Len(trace) /\ trace'[Len(trace')] = PostRunSleep)
        => pc = "post_run" /\ outcome = "running"

\* C16: a run that passed the sanity check goes through LoggingIn,
\* PostLogin, SubcommandAction, Reporting and Done in this order and never
\* back; no page of the employee area is asked for before the credentials
\* were submitted, the OAuth URL was opened and the second wait elapsed;
\* the post-run sleep happens only after the branch of the subcommand
\* ended without error, and only for a sleep greater than 0.
C16_RunMovesForward == []C16Sequence /\ [][C16Forward]_vars

\* A list run that slept after its totals were written
C16_Witness ==
    /\ pc = "done"
    /\ opts.subcmd = "List"
    /\ status = "completed"
    /\ Len(rows) > 0
    /\ Happened(PostRunSleep)

UrlReads == {i \in 1..Len(trace) : trace[i].op = "current_url"}

Backs == {i \in 1..Len(trace) : trace[i].op = "back"}

\* The URL that was read contains the path of the rate-limit page
OnRateLimitPage ==
    /\ right_url # <<>>
    /\ \E k \in 1..(Len(right_url[1]) - 1) :
        right_url[1][k] = "error" /\ right_url[1][k + 1] = "partial-rate-limit"

\* How often the call e was made
Times(e) ==
    Cardinality({i \in 1..Len(trace) :
                    trace[i].op = e.op /\ trace[i].arg = e.arg})

\* The calls of one iteration of the loop over the rows of the table
PerRow(e) == e.op \in {"find_elements", "text"} /\ e.arg = "td"

\* The recovery from the rate-limit page in a list run
SingleShotRecovery ==
    /\ Cardinality(UrlReads) <= 1
    /\ Cardinality(Backs) <= 1
    /\ \A i \in UrlReads :
        /\ opts.subcmd = "List"
        /\ i > 2
        /\ trace[i - 1] = Event("sleep", "500ms", "ok")
        /\ trace[i - 2] = Event("navigate", "attendance", "ok")
    /\ \A i \in At(Event("sleep", "500ms", "ok")) :
        i < Len(trace) => i + 1 \in UrlReads
    /\ \A i \in UrlReads :
        (trace[i].res = "ok" /\ i < Len(trace))
            => (OnRateLimitPage <=> i + 1 \in Backs)
    /\ \A j \in Backs :
        /\ j - 1 \in UrlReads
        /\ OnRateLimitPage
        /\ (trace[j].res = "ok" /\ j < Len(trace))
            => trace[j + 1] = Event("sleep", "500ms_after_back", "ok")
    /\ Happened(Event("sleep", "500ms_after_back", "ok")) => Backs # {}

\* C17 as stated: in a list run the current URL is read exactly once, after
\* the first settle wait; a back navigation and one more wait follow if and
\* only if that URL contains the rate-limit path; there is at most one back
\* navigation and the URL is not read again; and no step of any run is
\* executed more than twice.
C17_AsClaimed ==
    /\ SingleShotRecovery
    /\ \A i \in 1..Len(trace) : Times(trace[i]) <= 2

\* C17 (amended): as above, but only the steps outside the loop over the
\* rows of the table are executed at most twice; the calls of the loop are
\* made once for every row.
C17_SingleShotRecovery ==
    /\ SingleShotRecovery
    /\ \A i \in 1..Len(trace) : ~PerRow(trace[i]) => Times(trace[i]) <= 2
    /\ Times(Event("find_elements", "td", "ok")) <= Len(rows) + 1

\* A list run that was sent to the rate-limit page, went back once, and
\* then read a table of three rows
C17_Witness ==
    /\ pc = "done"
    /\ OnRateLimitPage
    /\ Cardinality(Backs) = 1
    /\ Len(rows) = 3
    /\ Times(Event("find_elements", "td", "ok")) = 3

\* Both probes for the error banner were made, or the first one failed
BannerProbed ==
    \/ Happened(Event("find_element", "time_error", "err"))
    \/ \E res \in Results : Happened(Event("find_element", "alert", res))

HeldOpen == Happened(Event("sleep", "90s", "ok"))

\* C18: in a revise-clock run, when the error banner is there after the
\* click on the submit button, the run ends in failure; the sleep of 90
\* seconds precedes the failure if and only if visible is set and no
\* post-run sleep was given, and the post-run sleep is not made.  When the
\* banner is not there, the run goes on to its end without error.
C18_BannerFailsRun ==
    /\ BannerProbed
        => /\ opts.subcmd = "ReviseClockingData"
           /\ Happened(Event("click", "insert_button", "ok"))
    /\ BannerPresent
        => /\ pc \in {"sleep_90", "failed"}
           /\ ~Happened(PostRunSleep)
           /\ pc = "failed"
                => /\ outcome = "Err"
                   /\ HeldOpen <=> (opts.visible /\ opts.sleep_time = NoSleep)
                   /\ HeldOpen => trace[Len(trace)] = Event("sleep", "90s", "ok")
    /\ HeldOpen => BannerPresent
    /\ (BannerProbed /\ ~BannerPresent)
        => /\ pc \in {"post_run", "done"}
           /\ ~Failed
           /\ pc = "done" => outcome = "Ok"

\* A visible run without post-run sleep found the banner, held the page
\* open for 90 seconds and failed
C18_Witness ==
    /\ pc = "failed"
    /\ BannerPresent
    /\ HeldOpen
    /\ opts.visible

\* The calls to the browser that failed
FailedCalls ==
    {i \in 1..Len(trace) : IsBrowser(trace[i]) /\ trace[i].res = "err"}

\* The failing call is the last thing the run did, and the run has failed
Fatal(i) == i = Len(trace) /\ pc = "failed" /\ outcome = "Err"

\* The two lookups of the probe for the error banner of revise-clock
BannerProbe(e) == e.op = "find_element" /\ e.arg \in {"time_error", "alert"}

\* The lookup of the title of the page in a list run without --csv
TitleLookup(e) == e.op = "find_element" /\ e.arg = "card-title"

\* C19 as stated: a call to the browser that fails ends the run in an error
\* and no call follows it, unless it belongs to the probe for the error
\* banner of revise-clock; being sent to the rate-limit page does not end
\* the run either.
C19_AsClaimed ==
    /\ \A i \in FailedCalls : Fatal(i) \/ BannerProbe(trace[i])
    /\ (OnRateLimitPage /\ Backs = {}) => pc = "back"

\* C19 (amended): a call to the browser that fails ends the run in an error
\* and no call follows it, unless it belongs to the probe for the error
\* banner of revise-clock or is the lookup of the page title of a list run
\* without --csv; being sent to the rate-limit page does not end the run
\* either.
C19_BrowserFailureIsFatal ==
    /\ \A i \in FailedCalls :
        \/ Fatal(i)
        \/ BannerProbe(trace[i])
        \/ TitleLookup(trace[i]) /\ opts.subcmd = "List" /\ ~opts.csv
    /\ (OnRateLimitPage /\ Backs = {}) => pc = "back"

\* A list run went on after the title of the page was not found, and then
\* failed on the lookup of the tables
C19_Witness ==
    /\ pc = "failed"
    /\ Happened(Event("find_element", "card-title", "err"))
    /\ trace[Len(trace)] = Event("find_elements", "table", "err")

-----------------------------------------------------------------------------
(* The raw lines of the row loop, checked under SpecList *)

IsRawLine(l) == l.line = "row"

\* The raw lines of the log, in the order they were written
RawLines == SelectSeq(log, IsRawLine)

HasFiveCells(r) == r.ncols >= COLUMNS_COUNT

\* The rows the loop has processed: those with at least five cells
ProcessedRows == SelectSeq(rows, HasFiveCells)

\* The line that shows the texts of the row r as they were read
RawLineOf(r) ==
    [line |-> "row", date |-> r.date, start |-> r.start_time,
     end |-> r.end_time, break |-> r.break_time]

\* C20: without --csv the log holds the raw line (date, start, end, break)
\* of every processed row exactly once and in the order of the rows, also
\* for a row with an empty start and for a row whose start or end does not
\* parse (the line is written before the texts are parsed, so even when
\* parsing panics); the note that a row was ignored follows the raw line
\* of that row; with --csv no raw line is written.
C20_RawLineForEveryRow ==
    /\ csv => RawLines = <<>>
    /\ ~csv => RawLines = [i \in 1..Len(ProcessedRows) |->
                              RawLineOf(ProcessedRows[i])]
    /\ \A i \in 1..Len(log) :
        log[i].line = "ignored" => i > 1 /\ log[i - 1].line = "row"

\* A row with an empty start, then a row whose end does not parse and
\* makes calc_minutes panic: both raw lines are in the log
C20_Witness ==
    /\ ~csv
    /\ Len(rows) = 2
    /\ HasFiveCells(rows[1]) /\ rows[1].start_time = t_empty
    /\ rows[2].start_time = t_0900 /\ rows[2].end_time = t_on_duty_colon
    /\ status = "panic"
    /\ Len(RawLines) = 2


-----------------------------------------------------------------------------
(* C21: the remote-reported totals and the Aggregator *)

\* The step that reads the summary rows and reports the totals
TotalsStep == pc = "list_rows" /\ pc' \in {"list_done", "aborted"}
              /\ rows' = rows

\* The lines of the log that report the totals of the Aggregator
TotalLines(lg) ==
    SelectSeq(lg, LAMBDA l : l.line \in {"total", "total_ignoring_breaks"})

\* The remote summary leaves the accumulators, the CSV lines, the net total
\* and the lines that report the totals as they are for any other summary
SummaryLeavesTotals ==
    TotalsStep =>
        /\ total_punched_minutes' = total_punched_minutes
        /\ total_break_minutes' = total_break_minutes
        /\ stdout' = stdout
        /\ \A s \in SummaryInputs :
            /\ punched' = totals_step(s).punched
            /\ (status' = "panic") = totals_step(s).panic
            /\ TotalLines(log') = TotalLines(totals_step(s).log)

\* C21: the remote-reported totals never influence the Aggregator (the
\* worked, break and net totals and every CSV line are the same whatever the
\* summary texts are and whether or not they are present), and a list run
\* that finds fewer than two summary rows reads no remote totals and still
\* completes without error.
C21_AsClaimed ==
    [][/\ SummaryLeavesTotals
       /\ (TotalsStep /\ jobcan_calculated_data' = <<>>)
            => status' = "completed"]_vars

\* The first half of C21 alone
C21_SummaryLeavesTotals == [][SummaryLeavesTotals]_vars


-----------------------------------------------------------------------------
(* C22: the unsigned subtractions of the Aggregator *)

\* A row whose start, end and break texts all parse
TextsParse(r) == /\ r.ncols >= COLUMNS_COUNT
                 /\ Parses(r.start_time)
                 /\ Parses(r.end_time)
                 /\ Parses(r.break_time)

\* C22: no unsigned subtraction of the Aggregator has a negative result:
\* for every row whose start, end and break texts parse, end - start is at
\* least 0, (end - start) - break is at least 0 where a CSV line is written,
\* and when all rows are such, total worked - total break is at least 0 at
\* the end; the run never aborts on the arithmetic.
C22_AsClaimed ==
    [][/\ (RowProcessed /\ TextsParse(NewRow))
            => /\ MinutesOf(NewRow.end_time) >= MinutesOf(NewRow.start_time)
               /\ csv => MinutesOf(NewRow.end_time)
                            - MinutesOf(NewRow.start_time)
                         >= MinutesOf(NewRow.break_time)
               /\ status' # "panic"
       /\ (TotalsStep /\ \A i \in 1..Len(rows) : TextsParse(rows[i]))
            => /\ ~WLess(total_punched_minutes, total_break_minutes)
               /\ status' # "panic"]_vars


-----------------------------------------------------------------------------
(* C23: the delimiter of an accepted text *)

\* The positions of ':' in the text s
Colons(s) == {i \in 1..Len(s) : s[i] = ":"}

\* The character of s that starts at byte offset 2 is ':'
ColonAtOffset2(s) == /\ is_char_boundary(s, 2)
                     /\ CharsAt(s, 2) < Len(s)
                     /\ s[CharsAt(s, 2) + 1] = ":"

\* The two texts C23 names
t_12_30_colon == <<"1", "2", "-", "3", "0", ":">>
t_12x30 == <<"1", "2", "x", "3", "0">>

\* C23: whenever calc_minutes returns Some, the character at offset 2 of
\* the text is ':' and it is the only ':' of the text; no text with another
\* character at offset 2 (such as "12-30:" or "12x30") is accepted.
C23_DelimiterAtOffset2 ==
    pc = "calc_returned" =>
        /\ result.tag = "Some" => /\ ColonAtOffset2(time_string)
                                  /\ Colons(time_string) = {3}
        /\ ~ColonAtOffset2(time_string) => result.tag # "Some"
        /\ time_string \in {t_12_30_colon, t_12x30} => result.tag = "None"

\* An accepted text that begins with a sign: "+2:+6" is 126 minutes, and
\* its only ':' is at offset 2
C23_Witness ==
    /\ pc = "calc_returned"
    /\ time_string = <<"+", "2", ":", "+", "6">>
    /\ result = Some(W(126))


-----------------------------------------------------------------------------
(* C24: a listing page with too few tables *)

\* The tables of the page were looked up and there are 6 or fewer
FewTables == Happened(Event("find_elements", "table", "ok")) /\ tables <= 6

\* The lookups and reads of the row extraction and of the remote totals
ExtractionArgs == {"tbody", "tr", "td", "summary tbody", "summary tr",
                   "summary td"}

\* The lines of the log that report totals, remote or computed
ReportLines(lg) ==
    SelectSeq(lg, LAMBDA l : l.line \in {"jobcan_says", "total",
                                         "total_ignoring_breaks", "compare"})

\* C24: when the listing page holds 6 or fewer tables, the list run
\* extracts no row, reads no remote totals (also when the table at index 3
\* is there), reports no totals and still ends successfully.
C24_FewTablesEndQuietly ==
    FewTables =>
        /\ \A i \in 1..Len(trace) : trace[i].arg \notin ExtractionArgs
        /\ rows = <<>> /\ stdout = <<>>
        /\ total_punched_minutes = W(0) /\ total_break_minutes = W(0)
        /\ jobcan_calculated_data = <<>> /\ punched = <<0, 0>>
        /\ ReportLines(log) = <<>>
        /\ pc \in {"post_run", "done"}
        /\ ~Failed
        /\ pc = "done" => outcome = "Ok"

\* A list run on a page of 6 tables, the summary table among them, has
\* returned Ok
C24_Witness ==
    /\ FewTables
    /\ tables = 6
    /\ pc = "done"
    /\ outcome = "Ok"


-----------------------------------------------------------------------------
(* C25: the output of a list run in CSV mode *)

\* The lookups of the page title
TitleArgs == {"card-title"}

\* The three texts of the row r as calc_minutes reads them
Parsed(r) == <<calc_minutes(r.start_time), calc_minutes(r.end_time),
               calc_minutes(r.break_time)>>

\* What the row r adds, given its parsed texts p: nothing unless it is
\* counted, else its CSV line, its worked minutes and its break
Added(r, p) ==
    IF r.ncols >= COLUMNS_COUNT /\ r.start_time # <<>>
       /\ p[1].tag = "Some" /\ p[2].tag = "Some"
    THEN LET worked == ToInt(p[2].val) - ToInt(p[1].val)
             break == IF p[3].tag = "Some" THEN ToInt(p[3].val) ELSE 0
         IN [lines |-> <<[date |-> r.date, start |-> r.start_time,
                          end |-> r.end_time, break |-> r.break_time,
                          worked |-> HoursAndMinutes(worked - break)]>>,
             worked |-> worked, breaks |-> break]
    ELSE [lines |-> <<>>, worked |-> 0, breaks |-> 0]

RECURSIVE Tally(_)
\* The CSV lines and the totals of the rows rs, each row parsed once
Tally(rs) ==
    IF rs = <<>> THEN [lines |-> <<>>, worked |-> 0, breaks |-> 0]
    ELSE CHOOSE t \in {[lines |-> a.lines \o rest.lines,
                        worked |-> a.worked + rest.worked,
                        breaks |-> a.breaks + rest.breaks] :
                           a \in {Added(Head(rs), p) :
                                     p \in {Parsed(Head(rs))}},
                           rest \in {Tally(Tail(rs))}} : TRUE

\* With --csv: an empty log, no lookup of the title, the CSV lines of the
\* counted rows on stdout, and the totals of those rows in the accumulators
CsvOnlyOutput ==
    csv =>
        /\ log = <<>>
        /\ \A i \in 1..Len(trace) : trace[i].arg \notin TitleArgs
        /\ \E t \in {Tally(rows)} :
            /\ stdout = t.lines
            /\ Small(total_punched_minutes)
            /\ ToInt(total_punched_minutes) = t.worked
            /\ Small(total_break_minutes)
            /\ ToInt(total_break_minutes) = t.breaks
            /\ pc \in {"post_run", "done"}
                => punched = <<(t.worked - t.breaks) \div 60,
                               (t.worked - t.breaks) % 60>>

=============================================================================
